---- MODULE Spec2Model ----
(***************************************************************************)
(* Model of Challenge_1/v2/email_validator_cli.py: validate_email, a       *)
(* sequence of ordered checks on one argument that returns a pair          *)
(* (is_valid, reason).  A Python str is modelled as a sequence of          *)
(* one-character strings; every other Python value by its type and by     *)
(* what bool() does on it: a truth value, or an exception.                 *)
(***************************************************************************)
EXTENDS Integers, Sequences, FiniteSets

VARIABLES email, pc, result

vars == <<email, pc, result>>

(* ------------------------------------------------------------------ *)
(* Characters                                                         *)
(* ------------------------------------------------------------------ *)

\* representatives of the classes a-z, A-Z and 0-9 of the two patterns
Letters == {"a", "Z"}
Digits == {"1"}
Alnum == Letters \cup Digits
\* the class [._+-] of local_pattern
Separators == {".", "_", "+", "-"}
\* characters str.strip() removes
Whitespace == {" ", "\t", "\n"}
\* a symbol neither pattern allows
Others == {"#"}
Chars == Alnum \cup Separators \cup Whitespace \cup Others \cup {"@"}

(* ------------------------------------------------------------------ *)
(* Program constants                                                  *)
(* ------------------------------------------------------------------ *)

MaxEmailLen == 254
MaxLocalLen == 64
MinDomainLen == 3
LabelInnerMax == 61
MaxLabelLen == 63
MinTldLen == 2

(* ------------------------------------------------------------------ *)
(* Results                                                            *)
(* ------------------------------------------------------------------ *)

Return(v, r) == [raised |-> FALSE, is_valid |-> v, reason |-> r]
Raise(e) == [raised |-> TRUE, is_valid |-> FALSE, reason |-> e]
NoResult == [raised |-> FALSE, is_valid |-> FALSE, reason |-> "<not called>"]

(* ------------------------------------------------------------------ *)
(* Python built-ins used by validate_email                            *)
(* ------------------------------------------------------------------ *)

\* bool(email) raises: the __bool__ / __len__ of an object may raise (a str
\* never does)
BoolRaises(e) == e.type # "str" /\ e.boolraises

\* bool(email) when it returns: a str is true when it is not empty
Truthy(e) == IF e.type = "str" THEN Len(e.val) > 0 ELSE e.truth

\* str.strip(): drop leading and trailing whitespace
strip(s) ==
    LET keep == {i \in DOMAIN s : s[i] \notin Whitespace}
    IN  IF keep = {} THEN <<>>
        ELSE LET first == CHOOSE i \in keep : \A j \in 1..(i - 1) : s[j] \in Whitespace
                 last == CHOOSE i \in keep : \A j \in (i + 1)..Len(s) : s[j] \in Whitespace
             IN  SubSeq(s, first, last)

\* str.count(c) for a one-character c
count(s, c) == Cardinality({i \in DOMAIN s : s[i] = c})

\* str.rsplit(c, 1): split at the last occurrence of c
rsplit(s, c) ==
    LET at == {i \in DOMAIN s : s[i] = c}
    IN  IF at = {} THEN <<s>>
        ELSE LET i == CHOOSE k \in at : \A j \in at : j <= k
             IN  <<SubSeq(s, 1, i - 1), SubSeq(s, i + 1, Len(s))>>

\* str.split(c): split at every occurrence of c
RECURSIVE split(_, _)
split(s, c) ==
    LET at == {i \in DOMAIN s : s[i] = c}
    IN  IF at = {} THEN <<s>>
        ELSE LET i == CHOOSE k \in at : \A j \in at : k <= j
             IN  <<SubSeq(s, 1, i - 1)>> \o split(SubSeq(s, i + 1, Len(s)), c)

\* '..' in local
HasDotDot(s) == \E i \in 1..(Len(s) - 1) : s[i] = "." /\ s[i + 1] = "."

\* the positions where '$' of a pattern can match under re.match without
\* flags: the end of the string, or just before a newline that ends it
DollarEnds(s) ==
    {Len(s)} \cup (IF Len(s) > 0 /\ s[Len(s)] = "\n" THEN {Len(s) - 1} ELSE {})

(* ------------------------------------------------------------------ *)
(* local_pattern  ^[a-zA-Z0-9]+([._+-][a-zA-Z0-9]+)*$                  *)
(* ------------------------------------------------------------------ *)

\* a character of [a-zA-Z0-9]+ continues or opens a run; one of [._+-] opens
\* a group ([._+-][a-zA-Z0-9]+) and so must come right after a run
LocalCharOk(t, i) ==
    \/ t[i] \in Alnum
    \/ t[i] \in Separators /\ i > 1 /\ t[i - 1] \in Alnum

\* variant: the pattern may end in a separator
LocalEndOk_AnyAllowed(t) == t[Len(t)] \in Alnum \cup Separators

\* the pattern and each of its groups end in [a-zA-Z0-9]+
LocalEndOk(t) == t[Len(t)] \in Alnum

LocalBody(t) ==
    /\ Len(t) >= 1
    /\ \A i \in DOMAIN t : LocalCharOk(t, i)
    /\ LocalEndOk(t)

MatchLocal(s) == \E e \in DollarEnds(s) : LocalBody(SubSeq(s, 1, e))

(* ------------------------------------------------------------------ *)
(* domain_pattern                                                     *)
(*   ^([a-zA-Z0-9]([a-zA-Z0-9-]{0,61}[a-zA-Z0-9])?\.)+[a-zA-Z]{2,}$     *)
(* ------------------------------------------------------------------ *)

\* one group [a-zA-Z0-9]([a-zA-Z0-9-]{0,61}[a-zA-Z0-9])? before its dot
LabelGroup(l) ==
    /\ Len(l) >= 1
    /\ l[1] \in Alnum
    /\ Len(l) >= 2 =>
         /\ l[Len(l)] \in Alnum
         /\ Len(l) - 2 <= LabelInnerMax
         /\ \A i \in 2..(Len(l) - 1) : l[i] \in Alnum \cup {"-"}

\* variant: [a-zA-Z0-9]{2,} as the final group
TldGroup_AllowDigits(l) == Len(l) >= MinTldLen /\ \A i \in DOMAIN l : l[i] \in Alnum

\* the final [a-zA-Z]{2,}
TldGroup(l) == Len(l) >= MinTldLen /\ \A i \in DOMAIN l : l[i] \in Letters

\* neither group matches a dot, so a match cuts the text at every dot
DomainBody(t) ==
    LET parts == split(t, ".")
        n == Len(parts)
    IN  /\ n >= 2
        /\ \A i \in 1..(n - 1) : LabelGroup(parts[i])
        /\ TldGroup(parts[n])

MatchDomain(s) == \E e \in DollarEnds(s) : DomainBody(SubSeq(s, 1, e))

(* ------------------------------------------------------------------ *)
(* The checks of validate_email, in the order of the code             *)
(* ------------------------------------------------------------------ *)

\* not email or not isinstance(email, str)
EmptyGuard(e) == ~Truthy(e) \/ e.type # "str"

\* variant: >= in place of >
TooLong_OffByOne(s) == Len(s) >= MaxEmailLen

\* len(email) > 254
TooLong(s) == Len(s) > MaxEmailLen

\* variant: only a missing '@' is refused
BadAtCount_AtLeastOne(s) == count(s, "@") < 1

\* email.count('@') != 1
BadAtCount(s) == count(s, "@") # 1

\* not local or len(local) > 64
BadLocalLen(local) == Len(local) = 0 \/ Len(local) > MaxLocalLen

\* not domain or len(domain) < 3
DomainTooShort(domain) == Len(domain) = 0 \/ Len(domain) < MinDomainLen

\* variant: the label loop without its length test
LabelTooLong_Never(label) == FALSE

\* len(label) > 63
LabelTooLong(label) == Len(label) > MaxLabelLen

\* label.startswith('-') or label.endswith('-')
HyphenAtEdge(label) ==
    Len(label) > 0 /\ (label[1] = "-" \/ label[Len(label)] = "-")

\* for label in labels: the first label that fails decides
RECURSIVE CheckLabels(_, _)
CheckLabels(labels, i) ==
    IF i > Len(labels) THEN "ok"
    ELSE IF LabelTooLong(labels[i]) THEN "Domain label exceeds 63 characters"
    ELSE IF HyphenAtEdge(labels[i])
         THEN "Domain labels cannot start or end with hyphen"
    ELSE CheckLabels(labels, i + 1)

\* the checks on the domain part
ValidateDomain(domain) ==
    IF DomainTooShort(domain) THEN Return(FALSE, "Domain part is too short")
    ELSE IF ~MatchDomain(domain)
         THEN Return(FALSE, "Domain contains invalid characters or format")
    ELSE LET labels == split(domain, ".")
             verdict == CheckLabels(labels, 1)
             tld == labels[Len(labels)]
         IN  IF verdict # "ok" THEN Return(FALSE, verdict)
             ELSE IF Len(tld) < MinTldLen
                  THEN Return(FALSE, "Top-level domain must be at least 2 characters")
             ELSE Return(TRUE, "Valid email address")

\* the checks on the local part, then those on the domain part
ValidateParts(local, domain) ==
    IF BadLocalLen(local) THEN Return(FALSE, "Local part must be 1-64 characters")
    ELSE IF ~MatchLocal(local)
         THEN Return(FALSE, "Local part contains invalid characters or format")
    ELSE IF HasDotDot(local)
         THEN Return(FALSE, "Local part cannot contain consecutive dots")
    ELSE ValidateDomain(domain)

\* everything after email = email.strip()
ValidateStripped(s) ==
    IF TooLong(s)
    THEN Return(FALSE, "Email exceeds maximum length of 254 characters")
    ELSE IF BadAtCount(s)
         THEN Return(FALSE, "Email must contain exactly one @ symbol")
    ELSE LET parts == rsplit(s, "@")
         IN  IF Len(parts) # 2 THEN Return(FALSE, "Invalid email format")
             ELSE ValidateParts(parts[1], parts[2])

\* `not email` is evaluated first, before the isinstance test
validate_email(e) ==
    IF BoolRaises(e) THEN Raise("ValueError")
    ELSE IF EmptyGuard(e) THEN Return(FALSE, "Email cannot be empty")
    ELSE IF e.type # "str" THEN Raise("AttributeError")
    ELSE ValidateStripped(strip(e.val))

(* ------------------------------------------------------------------ *)
(* Arguments                                                          *)
(* ------------------------------------------------------------------ *)

MaxShort == 3
MaxLocal == 3
MaxDomain == 5
MaxLabels == 3

Str(s) == [type |-> "str", truth |-> Len(s) > 0, boolraises |-> FALSE, val |-> s]

\* None, 0, 5, [], [1], and an object whose __bool__ raises ValueError
NonStrings ==
    {[type |-> "NoneType", truth |-> FALSE, boolraises |-> FALSE, val |-> <<>>]}
    \cup {[type |-> t, truth |-> b, boolraises |-> FALSE, val |-> <<>>] :
             t \in {"int", "list"}, b \in BOOLEAN}
    \cup {[type |-> "object", truth |-> FALSE, boolraises |-> TRUE, val |-> <<>>]}

Strings(A, n) == UNION {[1..k -> A] : k \in 0..n}

Rep(c, n) == [i \in 1..n |-> c]

\* surrounding whitespace
Pads == {<<<<>>, <<>>>>, <<<<" ">>, <<" ">>>>, <<<<>>, <<"\n">>>>, <<<<"\t">>, <<>>>>}

LocalAlphabet == (Chars \ {"@", "\t"})
DomainAlphabet == {"a", "1", ".", "-", "#"}
LocalSamples == {<<"a">>, <<"a", "+", "1", ".", "Z">>}
DomainSamples == {<<"a", ".", "Z", "a">>, <<"a", "-", "1", ".", "a", ".", "Z", "a">>}

\* whitespace after the domain only
TailPads == {<<<<>>, <<>>>>, <<<<>>, <<"\n">>>>}

Framed(l, d, pads) == {p[1] \o l \o <<"@">> \o d \o p[2] : p \in pads}

ShortStrings == Strings(Chars, MaxShort)

LocalVaried ==
    UNION {Framed(l, d, Pads) : l \in Strings(LocalAlphabet, MaxLocal), d \in DomainSamples}

DomainVaried ==
    UNION {Framed(l, d, TailPads) : l \in LocalSamples, d \in Strings(DomainAlphabet, MaxDomain)}

\* addresses at the length limits
LongLocalLens == {1, MaxLocalLen, MaxLocalLen + 1}
LongLabelLens == {1, MaxLabelLen - 1, MaxLabelLen, MaxLabelLen + 1}
LongTldLens == {MinTldLen, MaxLabelLen - 1, MaxLabelLen, MaxLabelLen + 1}

RECURSIVE LongLabels(_, _)
LongLabels(lens, i) ==
    IF i > Len(lens) THEN <<>>
    ELSE Rep("a", lens[i]) \o <<".">> \o LongLabels(lens, i + 1)

LongStrings ==
    {Rep("a", n) \o <<"@">> \o LongLabels(lens, 1) \o Rep("Z", t) \o pad :
        n \in LongLocalLens,
        lens \in UNION {[1..k -> LongLabelLens] : k \in 1..MaxLabels},
        t \in LongTldLens,
        pad \in {<<>>, <<" ">>}}

Inputs ==
    NonStrings
    \cup {Str(s) : s \in ShortStrings \cup LocalVaried \cup DomainVaried \cup LongStrings}

(* ------------------------------------------------------------------ *)
(* State machine: one call of validate_email                          *)
(* ------------------------------------------------------------------ *)

Init ==
    /\ email \in Inputs
    /\ pc = "call"
    /\ result = NoResult

Validate ==
    /\ pc = "call"
    /\ result' = validate_email(email)
    /\ pc' = "returned"
    /\ UNCHANGED email

Next == Validate

Spec == Init /\ [][Next]_vars

(* ------------------------------------------------------------------ *)
(* Vocabulary of the properties                                       *)
(* ------------------------------------------------------------------ *)

Returned == pc = "returned"
IsStr == email.type = "str"
\* the argument after trimming
Trimmed == strip(email.val)
AtSetOf(t) == {i \in DOMAIN t : t[i] = "@"}
LastAtOf(t) == LET at == AtSetOf(t) IN CHOOSE i \in at : \A j \in at : j <= i
AtSet == LET t == Trimmed IN AtSetOf(t)
HasOneAt == Cardinality(AtSet) = 1
\* the text before and after the final '@'
LocalPart == LET t == Trimmed IN SubSeq(t, 1, LastAtOf(t) - 1)
DomainPart == LET t == Trimmed IN SubSeq(t, LastAtOf(t) + 1, Len(t))
Valid == Return(TRUE, "Valid email address")

AdjacentDots(s) == \E i \in DOMAIN s : i < Len(s) /\ s[i] = "." /\ s[i + 1] = "."

\* no dot-separated label of d has more than n characters
LabelsAtMost(d, n) ==
    \A i \in 1..(Len(d) - n) : \E j \in i..(i + n) : d[j] = "."

\* alphanumeric runs joined by single separators
WellFormedLocal(l) ==
    /\ Len(l) >= 1
    /\ \A i \in DOMAIN l : l[i] \in Alnum \cup Separators
    /\ l[1] \in Alnum /\ l[Len(l)] \in Alnum
    /\ \A i \in DOMAIN l : i < Len(l) => ~(l[i] \in Separators /\ l[i + 1] \in Separators)

\* two or more non-empty labels of letters, digits and inner hyphens, the
\* last one of two or more letters
DomainShape(d) ==
    LET dots == {i \in DOMAIN d : d[i] = "."}
    IN  /\ dots # {}
        /\ d[1] # "." /\ d[Len(d)] # "." /\ ~AdjacentDots(d)
        /\ \A i \in DOMAIN d : d[i] \in Alnum \cup {"-", "."}
        /\ \A i \in DOMAIN d :
             d[i] = "-" => i > 1 /\ i < Len(d) /\ d[i - 1] # "." /\ d[i + 1] # "."
        /\ \A i \in dots :
             (\A j \in dots : j <= i) =>
                /\ Len(d) - i >= MinTldLen
                /\ \A k \in (i + 1)..Len(d) : d[k] \in Letters

(* ------------------------------------------------------------------ *)
(* Properties                                                         *)
(* ------------------------------------------------------------------ *)

\* C1: an argument that is None, not a string, or empty once trimmed
\* (whitespace only included) yields exactly (False, "Email cannot be empty")
C1_EmptyInputReason ==
    (Returned /\ (~IsStr \/ Trimmed = <<>>))
        => result = Return(FALSE, "Email cannot be empty")

\* C2: for every string, validate_email gives the same result on the string
\* and on the trimmed string
C2_TrimInvariant ==
    (Returned /\ IsStr) => result = validate_email(Str(Trimmed))

\* C3: an accepted address has no character outside [A-Za-z0-9._+-] in the
\* local part, at any position
C3_LocalCharset ==
    (Returned /\ result.is_valid)
        => LET l == LocalPart IN \A i \in DOMAIN l : l[i] \in Alnum \cup Separators

\* C4: an accepted address has a trimmed length of at most 254, a local part
\* of 1 to 64 characters and no domain label, the last included, over 63
C4_LengthBounds ==
    (Returned /\ result.is_valid)
        => /\ Len(Trimmed) <= MaxEmailLen
           /\ Len(LocalPart) >= 1 /\ Len(LocalPart) <= MaxLocalLen
           /\ LabelsAtMost(DomainPart, MaxLabelLen)

C4_Witness ==
    /\ Returned /\ result.is_valid
    /\ Len(Trimmed) = MaxEmailLen
    /\ Len(LocalPart) = MaxLocalLen
    /\ ~LabelsAtMost(DomainPart, MaxLabelLen - 1)

\* C5: the domain of an accepted address is two or more non-empty labels of
\* letters, digits and hyphens, none starting or ending with a hyphen, the
\* last label being two or more letters
C5_DomainShape ==
    (Returned /\ result.is_valid) => DomainShape(DomainPart)

C5_Witness ==
    /\ Returned /\ result.is_valid
    /\ LET d == DomainPart
       IN  /\ \E i \in DOMAIN d : d[i] = "-"
           /\ \E i \in DOMAIN d : d[i] \in Digits
           /\ Cardinality({i \in DOMAIN d : d[i] = "."}) >= 2

\* C6: a local part that starts or ends with '.', '_', '+' or '-', or that
\* holds two consecutive dots, is never accepted
C6_SeparatorPlacement ==
    (/\ Returned /\ IsStr /\ AtSet # {}
     /\ LET l == LocalPart
        IN  /\ Len(l) >= 1
            /\ \/ l[1] \in Separators
               \/ l[Len(l)] \in Separators
               \/ AdjacentDots(l))
        => ~result.is_valid

C6_Witness ==
    /\ Returned /\ IsStr /\ HasOneAt
    /\ LET l == LocalPart
       IN  Len(l) >= 2 /\ l[1] \in Alnum /\ l[Len(l)] \in Separators
    /\ DomainShape(DomainPart)
    /\ result = Return(FALSE, "Local part contains invalid characters or format")

\* C7: a string whose trimmed form has at most 254 characters, exactly one
\* '@', a well-formed local part of 1 to 64 characters and a well-formed
\* domain with labels of at most 63 characters is accepted with
\* (True, "Valid email address")
C7_Acceptance ==
    (/\ Returned /\ IsStr
     /\ Len(Trimmed) <= MaxEmailLen
     /\ HasOneAt
     /\ WellFormedLocal(LocalPart) /\ Len(LocalPart) <= MaxLocalLen
     /\ Len(DomainPart) >= 1
     /\ DomainShape(DomainPart) /\ LabelsAtMost(DomainPart, MaxLabelLen))
        => result = Valid

C7_Witness ==
    /\ Returned /\ IsStr /\ result = Valid
    /\ Len(Trimmed) = MaxEmailLen
    /\ Len(email.val) > MaxEmailLen
    /\ WellFormedLocal(LocalPart)
    /\ DomainShape(DomainPart)

\* C8: a string whose number of '@' is not exactly one is rejected, and with
\* the at-sign reason when it is non-empty once trimmed and its trimmed
\* length is at most 254
C8_SingleAt ==
    (Returned /\ IsStr /\ Cardinality({i \in DOMAIN email.val : email.val[i] = "@"}) # 1)
        => /\ ~result.is_valid
           /\ (Trimmed # <<>> /\ Len(Trimmed) <= MaxEmailLen)
                => result.reason = "Email must contain exactly one @ symbol"

C8_Witness ==
    /\ Returned /\ IsStr
    /\ \E i \in DOMAIN email.val :
          i < Len(email.val) /\ email.val[i] = "@" /\ email.val[i + 1] = "@"
    /\ result = Return(FALSE, "Email must contain exactly one @ symbol")

\* C9: every call returns a pair without raising, the reason is a non-empty
\* text, and is_valid is True exactly when the reason is "Valid email address"
C9_Totality ==
    Returned
        => /\ ~result.raised
           /\ result.is_valid \in BOOLEAN
           /\ result.reason # ""
           /\ result.is_valid <=> (result.reason = "Valid email address")

\* C10: a string that passes the emptiness, total-length, at-sign and
\* local-length checks and has '..' in its local part is rejected with
\* "Local part cannot contain consecutive dots"
C10_ConsecutiveDotsReason ==
    (/\ Returned /\ IsStr
     /\ Trimmed # <<>> /\ Len(Trimmed) <= MaxEmailLen
     /\ HasOneAt
     /\ Len(LocalPart) >= 1 /\ Len(LocalPart) <= MaxLocalLen
     /\ AdjacentDots(LocalPart))
        => result = Return(FALSE, "Local part cannot contain consecutive dots")

====
